---- MODULE Spec2Model ----
(***************************************************************************)
(* Model of the offering ledger of src/index.tsx: the store kept by the    *)
(* App component (members, transactions, expense categories, access code), *)
(* its handlers, and the values App derives from the store on every render *)
(* (display feed with running balance, today split, weekly and yearly      *)
(* totals, weekly category breakdown), and the SearchModal component with  *)
(* its own state and the two searches it derives.                          *)
(*                                                                         *)
(* Encodings.                                                              *)
(*  - A date string "YYYY-MM-DD" is the tuple <<YYYY, MM, DD>>; comparing  *)
(*    two such strings with < is comparing the tuples lexicographically    *)
(*    (fixed width, zero padded fields).                                   *)
(*  - A time value (Date.getTime) is counted in hours since the epoch; the *)
(*    time zone offset is a whole number of hours.                         *)
(*  - Korean strings are romanised (the module is ASCII):                  *)
(*      sipiljo 십일조, seongyo 선교헌금, geonchuk 건축헌금, gamsa 감사헌금,    *)
(*      jujeong 주정헌금, jeolgi 절기헌금, saengil 생일감사,                  *)
(*      simbang 심방감사, ilcheonbeonje 일천번제, gita 기타,                  *)
(*      unyeongbi 운영비, seongyobi 선교비, gujebi 구제비,                    *)
(*      mumyeong 무명, mijijeong 미지정; teukbyeol 특별헌금 is a category     *)
(*      that an imported file can carry and no list of the program names.  *)
(*  - memberId undefined is 0 (ids come from Date.now() and are positive). *)
(*  - Member.position and Transaction.memo are not modelled: no derived    *)
(*    value reads them.                                                    *)
(***************************************************************************)
EXTENDS Integers, Sequences, FiniteSets, TLC

VARIABLES
    members,            \* usePersistentState church_members_v2
    transactions,       \* usePersistentState church_transactions_v2
    expenseCategories,  \* usePersistentState church_expense_categories_v2
    password,           \* usePersistentState church_app_password_v2 ("" is null)
    view,               \* useState view
    showPasswordModal,  \* useState showPasswordModal
    passwordModalProps, \* useState passwordModalProps: [mode, action]
    reader,             \* the file a FileReader is reading, if any
    ran,                \* what the last step did at the gate
    now,                \* Date.now(), the part that tells two ids apart
    todayStr,           \* todayString(): the UTC date of the wall clock
    tzOffset,           \* the runtime's time zone, hours east of UTC
    search              \* useState of SearchModal, while it is mounted

vars == <<members, transactions, expenseCategories, password, view,
          showPasswordModal, passwordModalProps, reader, ran, now, todayStr,
          tzOffset, search>>

\* the store, and what surrounds it
store == <<members, transactions, expenseCategories, password>>
gate == <<showPasswordModal, passwordModalProps>>
clock == <<now, todayStr, tzOffset>>

-----------------------------------------------------------------------------
(* Constants of the program *)

Undefined == 0

INCOME_CATEGORIES ==
    <<"sipiljo", "gamsa", "geonchuk", "seongyo", "jujeong", "jeolgi",
      "saengil", "simbang", "ilcheonbeonje", "gita">>

DefaultExpenseCategories == <<"unyeongbi", "seongyobi", "gujebi">>

\* reverse of the display order: the feed is reversed after sorting
categoryOrder ==
    <<"gita", "ilcheonbeonje", "simbang", "saengil", "jeolgi", "jujeong",
      "gamsa", "geonchuk", "seongyo", "sipiljo">>

gyeongsangbiCategories ==
    {"jujeong", "sipiljo", "gamsa", "saengil", "simbang", "ilcheonbeonje"}

-----------------------------------------------------------------------------
(* Sequences *)

Range(s) == {s[i] : i \in DOMAIN s}

Reverse(s) == [i \in 1..Len(s) |-> s[Len(s) + 1 - i]]

SeqsUpTo(S, n) == UNION {[1..k -> S] : k \in 0..n}

\* Array.prototype.indexOf: 0-based position of the first match, or -1
IndexOf(s, x) ==
    IF \E i \in DOMAIN s : s[i] = x
    THEN (CHOOSE i \in DOMAIN s : s[i] = x /\ \A j \in 1..(i-1) : s[j] # x) - 1
    ELSE -1

-----------------------------------------------------------------------------
(* Dates: the Date object of the runtime *)

\* days since 1970-01-01 of a proleptic Gregorian date
DaysFromCivil(date) ==
    LET y   == IF date[2] <= 2 THEN date[1] - 1 ELSE date[1]
        era == y \div 400
        yoe == y - era * 400
        mp  == IF date[2] > 2 THEN date[2] - 3 ELSE date[2] + 9
        doy == (153 * mp + 2) \div 5 + date[3] - 1
        doe == yoe * 365 + yoe \div 4 - yoe \div 100 + doy
    IN  era * 146097 + doe - 719468

CivilFromDays(z0) ==
    LET z   == z0 + 719468
        era == z \div 146097
        doe == z - era * 146097
        yoe == (doe - doe \div 1460 + doe \div 36524 - doe \div 146096) \div 365
        doy == doe - (365 * yoe + yoe \div 4 - yoe \div 100)
        mp  == (5 * doy + 2) \div 153
        d   == doy - (153 * mp + 2) \div 5 + 1
        m   == IF mp < 10 THEN mp + 3 ELSE mp - 9
        y   == yoe + era * 400
    IN  <<IF m <= 2 THEN y + 1 ELSE y, m, d>>

\* new Date("YYYY-MM-DD").getTime(): a date-only string is UTC midnight
DateParse(date) == DaysFromCivil(date) * 24

\* the local calendar day (days since the epoch) and hour of a time value
LocalDay(t, tz) == (t + tz) \div 24
LocalHour(t, tz) == (t + tz) % 24

getFullYear(t, tz) == CivilFromDays(LocalDay(t, tz))[1]
getDate(t, tz) == CivilFromDays(LocalDay(t, tz))[3]
\* 1970-01-01 was a Thursday; 0 is Sunday
getDay(t, tz) == (LocalDay(t, tz) + 4) % 7

\* Date.prototype.setDate: day n of the local month, local time of day kept;
\* n < 1 counts back into the months before
setDate(t, n, tz) ==
    LET ymd == CivilFromDays(LocalDay(t, tz))
        first == DaysFromCivil(<<ymd[1], ymd[2], 1>>)
    IN  (first + n - 1) * 24 + LocalHour(t, tz) - tz

\* toISOString().slice(0, 10): the UTC date
toISODate(t) == CivilFromDays(t \div 24)

\* a < b on two date strings
StrLess(a, b) ==
    \/ a[1] < b[1]
    \/ a[1] = b[1] /\ a[2] < b[2]
    \/ a[1] = b[1] /\ a[2] = b[2] /\ a[3] < b[3]

StrGeq(a, b) == ~StrLess(a, b)

-----------------------------------------------------------------------------
(* Names *)

\* String.prototype.localeCompare(_, 'ko') orders by the collation key of
\* the Korean locale: gim 김 < mumyeong 무명 < mun 문 < mijijeong 미지정 < bak 박
CollationKey(name) ==
    CASE name = "gim" -> 1
      [] name = "mumyeong" -> 2
      [] name = "mun" -> 3
      [] name = "mijijeong" -> 4
      [] name = "bak" -> 5

\* a.localeCompare(b, 'ko'): negative, zero or positive
localeCompare(a, b) ==
    IF CollationKey(a) < CollationKey(b) THEN -1
    ELSE IF CollationKey(a) > CollationKey(b) THEN 1 ELSE 0

\* members.find(m => m.id === id): the position of the first match, 0 if none
FindMember(mem, id) ==
    IF \E i \in DOMAIN mem : mem[i].id = id
    THEN CHOOSE i \in DOMAIN mem :
            mem[i].id = id /\ \A j \in 1..(i-1) : mem[j].id # id
    ELSE 0

\* members.find(...)?.name || '미지정'
NameOrUnspecified(mem, id) ==
    LET i == FindMember(mem, id)
    IN  IF i # 0 /\ mem[i].name # "" THEN mem[i].name ELSE "mijijeong"

getMemberNameForSort(mem, memberId) ==
    IF memberId = Undefined THEN "mumyeong"
    ELSE NameOrUnspecified(mem, memberId)

getMemberName(mem, id) == NameOrUnspecified(mem, id)

-----------------------------------------------------------------------------
(* The display feed: sort, running balance, reverse *)

\* SignedAmount with the kind of the entry forgotten
SignedAmountUnsigned(tx) == tx.amount

\* the amount an entry moves the balance by
SignedAmount(tx) == IF tx.type = "income" THEN tx.amount ELSE -tx.amount

\* a category absent from categoryOrder takes the index after the last
EffectiveIndex(category) ==
    IF IndexOf(categoryOrder, category) = -1
    THEN Len(categoryOrder)
    ELSE IndexOf(categoryOrder, category)

\* CompareTx with the two kinds swapped: expenses before incomes
CompareTxExpenseFirst(a, b, mem) ==
    LET dateCompare == DateParse(a.date) - DateParse(b.date)
        nameCompare == localeCompare(getMemberNameForSort(mem, b.memberId),
                                     getMemberNameForSort(mem, a.memberId))
    IN  IF dateCompare # 0 THEN dateCompare
        ELSE IF a.type # b.type THEN (IF a.type = "income" THEN 1 ELSE -1)
        ELSE IF a.type = "income"
                /\ EffectiveIndex(a.category) # EffectiveIndex(b.category)
             THEN EffectiveIndex(a.category) - EffectiveIndex(b.category)
        ELSE IF a.type = "income" /\ nameCompare # 0 THEN nameCompare
        ELSE a.id - b.id

\* the comparator of the sort of withBalance
CompareTx(a, b, mem) ==
    LET dateCompare == DateParse(a.date) - DateParse(b.date)
        nameCompare == localeCompare(getMemberNameForSort(mem, b.memberId),
                                     getMemberNameForSort(mem, a.memberId))
    IN  IF dateCompare # 0 THEN dateCompare
        ELSE IF a.type # b.type THEN (IF a.type = "income" THEN -1 ELSE 1)
        ELSE IF a.type = "income"
                /\ EffectiveIndex(a.category) # EffectiveIndex(b.category)
             THEN EffectiveIndex(a.category) - EffectiveIndex(b.category)
        ELSE IF a.type = "income" /\ nameCompare # 0 THEN nameCompare
        ELSE a.id - b.id

\* Array.prototype.sort is stable: x goes after the last element that does
\* not compare greater than it
InsertSorted(s, x, mem) ==
    LET keep == {i \in DOMAIN s : CompareTx(s[i], x, mem) <= 0}
        k == IF keep = {} THEN 0 ELSE CHOOSE i \in keep : \A j \in keep : j <= i
    IN  SubSeq(s, 1, k) \o <<x>> \o SubSeq(s, k + 1, Len(s))

RECURSIVE SortTx(_, _)
SortTx(s, mem) ==
    IF s = <<>> THEN <<>>
    ELSE InsertSorted(SortTx(SubSeq(s, 1, Len(s) - 1), mem), s[Len(s)], mem)

WithBalanceOf(tx, balance) ==
    [id |-> tx.id, type |-> tx.type, date |-> tx.date,
     category |-> tx.category, amount |-> tx.amount,
     memberId |-> tx.memberId, balance |-> balance]

\* .map(tx => { runningBalance += ...; return {...tx, balance} })
RECURSIVE MapRunningBalance(_, _)
MapRunningBalance(s, runningBalance) ==
    IF s = <<>> THEN <<>>
    ELSE LET next == runningBalance + SignedAmount(Head(s))
         IN  <<WithBalanceOf(Head(s), next)>>
                 \o MapRunningBalance(Tail(s), next)

\* withBalance without the final .reverse(): the oldest entry comes first
withBalanceChronological(txs, mem) == MapRunningBalance(SortTx(txs, mem), 0)

withBalance(txs, mem) == Reverse(MapRunningBalance(SortTx(txs, mem), 0))

transactionsWithBalance == withBalance(transactions, members)

-----------------------------------------------------------------------------
(* The today split *)

\* TodaySplitStep with <= for <: today's entries fall into previousBalance
TodaySplitStepInclusive(acc, tx, today) ==
    IF StrLess(tx.date, today) \/ tx.date = today
    THEN [acc EXCEPT !.previousBalance = @ + SignedAmount(tx)]
    ELSE acc

\* transactions.forEach: one step of the accumulation of balanceData
TodaySplitStep(acc, tx, today) ==
    IF StrLess(tx.date, today)
    THEN [acc EXCEPT !.previousBalance = @ + SignedAmount(tx)]
    ELSE IF tx.date = today
    THEN [acc EXCEPT !.todaysChange = @ + SignedAmount(tx)]
    ELSE acc

RECURSIVE TodaySplitLoop(_, _, _)
TodaySplitLoop(acc, s, today) ==
    IF s = <<>> THEN acc
    ELSE TodaySplitLoop(TodaySplitStep(acc, Head(s), today), Tail(s), today)

balanceDataOf(txs, today) ==
    LET acc == TodaySplitLoop([previousBalance |-> 0, todaysChange |-> 0],
                              txs, today)
    IN  [previousBalance |-> acc.previousBalance,
         todaysChange |-> acc.todaysChange,
         todaysBalance |-> acc.previousBalance + acc.todaysChange]

balanceData == balanceDataOf(transactions, todayStr)

-----------------------------------------------------------------------------
(* Weekly and yearly totals *)

\* today.getFullYear() + '-01-01', today being new Date(todayStr)
yearStartStr(today, tz) == <<getFullYear(DateParse(today), tz), 1, 1>>

\* weekStart.setDate(today.getDate() - today.getDay()), then toISOString
weekStartStr(today, tz) ==
    LET t == DateParse(today)
    IN  toISODate(setDate(t, getDate(t, tz) - getDay(t, tz), tz))

\* obj[key] = value on a plain object
Assign(obj, key, value) ==
    [k \in DOMAIN obj \cup {key} |-> IF k = key THEN value ELSE obj[k]]

\* Object.fromEntries(gyeongsangbiCategories.map(cat => [cat, 0]))
WindowZero ==
    [weeklyIncome |-> 0, weeklyExpense |-> 0,
     yearlyIncome |-> 0, yearlyExpense |-> 0,
     weeklyGyeongsangbiBreakdown |-> [cat \in gyeongsangbiCategories |-> 0],
     weeklySeongyo |-> 0, weeklyGeonchuk |-> 0]

\* the part of the forEach body guarded by tx.date >= yearStartStr
YearlyStep(acc, tx, yearStart) ==
    IF StrGeq(tx.date, yearStart)
    THEN IF tx.type = "income"
         THEN [acc EXCEPT !.yearlyIncome = @ + tx.amount]
         ELSE [acc EXCEPT !.yearlyExpense = @ + tx.amount]
    ELSE acc

\* the part of the forEach body guarded by tx.date >= weekStartStr
WeeklyStep(acc, tx, weekStart) ==
    IF StrGeq(tx.date, weekStart)
    THEN IF tx.type = "income"
         THEN LET a == [acc EXCEPT !.weeklyIncome = @ + tx.amount]
              IN  IF tx.category \in gyeongsangbiCategories
                  THEN [a EXCEPT !.weeklyGyeongsangbiBreakdown =
                            Assign(@, tx.category, @[tx.category] + tx.amount)]
                  ELSE IF tx.category = "seongyo"
                  THEN [a EXCEPT !.weeklySeongyo = @ + tx.amount]
                  ELSE IF tx.category = "geonchuk"
                  THEN [a EXCEPT !.weeklyGeonchuk = @ + tx.amount]
                  ELSE a
         ELSE [acc EXCEPT !.weeklyExpense = @ + tx.amount]
    ELSE acc

RECURSIVE WindowLoop(_, _, _, _)
WindowLoop(acc, s, yearStart, weekStart) ==
    IF s = <<>> THEN acc
    ELSE WindowLoop(
            WeeklyStep(YearlyStep(acc, Head(s), yearStart), Head(s), weekStart),
            Tail(s), yearStart, weekStart)

WindowTotals(txs, today, tz) ==
    WindowLoop(WindowZero, txs, yearStartStr(today, tz), weekStartStr(today, tz))

periodicalSummaryOf(txs, today, tz) ==
    LET w == WindowTotals(txs, today, tz)
    IN  [weeklyIncome |-> w.weeklyIncome,
         weeklyExpense |-> w.weeklyExpense,
         yearlyIncome |-> w.yearlyIncome,
         yearlyExpense |-> w.yearlyExpense,
         weeklyBalance |-> w.weeklyIncome - w.weeklyExpense,
         yearlyBalance |-> w.yearlyIncome - w.yearlyExpense]

weeklyCategoryTotalsOf(txs, today, tz) ==
    LET w == WindowTotals(txs, today, tz)
    IN  [weeklyGyeongsangbiBreakdown |-> w.weeklyGyeongsangbiBreakdown,
         weeklySeongyo |-> w.weeklySeongyo,
         weeklyGeonchuk |-> w.weeklyGeonchuk]

periodicalSummary == periodicalSummaryOf(transactions, todayStr, tzOffset)

weeklyCategoryTotals == weeklyCategoryTotalsOf(transactions, todayStr, tzOffset)

-----------------------------------------------------------------------------
(* Records of the store *)

Member(id, name) == [id |-> id, name |-> name]

Transaction(id, type, date, category, amount, memberId) ==
    [id |-> id, type |-> type, date |-> date, category |-> category,
     amount |-> amount, memberId |-> memberId]

\* a file as JSON.parse sees it: whether it parses, which of the three keys
\* it holds, and what they hold
File(parses, has, mem, txs, cats) ==
    [parses |-> parses, has |-> has, members |-> mem, transactions |-> txs,
     expenseCategories |-> cats]

\* an action handed to runProtectedAction: performSave, the switch to the
\* roster-edit view, or performLoad of a chosen file
Action(kind, files) == [kind |-> kind, files |-> files]

NoModalProps ==
    [mode |-> "enter", action |-> Action("none", <<>>), password |-> ""]

\* what the last step did at the gate: the protected action it ran ("none"
\* when it ran none, "refused" when the dialog refused the code) and the two
\* fields of the dialog as they were submitted
Ran(kind, code, confirmPassword) ==
    [kind |-> kind, code |-> code, confirmPassword |-> confirmPassword]

NoRun == Ran("none", "", "")

-----------------------------------------------------------------------------
(* Bounds of the model *)

\* the longest list of entries
MaxTx == 3
\* the clock Date.now() runs from 1 to MaxNow
MaxNow == 2
\* the longest roster
MaxMembers == 1
\* the longest list of entries the forms fill from a fresh installation
MaxUiTx == 2
\* the longest list of expense categories
MaxCategories == 5

-----------------------------------------------------------------------------
(* The state of SearchModal *)

\* the useState initial values: the range runs from the day one year before
\* now to today, the by-name tab is shown and nothing is selected (a
\* nameQuery of '' is Undefined, a categoryQuery of '' is "")
SearchInitial(today) ==
    [searchType |-> "name", nameQuery |-> Undefined,
     categoryType |-> "income", categoryQuery |-> "",
     startDate |-> <<today[1] - 1, today[2], today[3]>>, endDate |-> today]

\* SearchModal is rendered while view is 'search': leaving the view unmounts
\* it and its state is lost, entering the view mounts it anew
Mounted(v) ==
    IF v = "search" /\ view = "search" THEN search ELSE SearchInitial(todayStr)

-----------------------------------------------------------------------------
(* Handlers of the store *)

\* Date.now() is read again by every handler; time passes between two
\* handlers, or not: the clock has a resolution and can be set back
Tick ==
    /\ now < MaxNow
    /\ now' = now + 1
    /\ ran' = NoRun
    /\ UNCHANGED <<store, view, gate, reader, todayStr, tzOffset, search>>

\* an add that puts the new entry first
handleAddTransactionFirst(type, date, category, amount, memberId) ==
    transactions' =
        <<Transaction(now, type, date, category, amount, memberId)>>
            \o transactions

\* setTransactions(prev => [...prev, { ...tx, id: Date.now() }])
handleAddTransaction(type, date, category, amount, memberId) ==
    transactions' = Append(transactions,
        Transaction(now, type, date, category, amount, memberId))

\* IncomeForm.handleSubmit; an empty amount field is the amount 0 and an
\* unselected member is Undefined: both are refused
IncomeFormSubmit(date, category, memberId, amount) ==
    /\ view = "main"
    /\ Len(transactions) < MaxTx
    /\ memberId = Undefined \/ \E i \in DOMAIN members : members[i].id = memberId
    /\ IF amount <= 0 \/ memberId = Undefined
       THEN UNCHANGED transactions
       ELSE handleAddTransaction("income", date, category, amount, memberId)
    /\ ran' = NoRun
    /\ UNCHANGED <<members, expenseCategories, password, view, gate, reader,
                   clock, search>>

\* ExpenseForm.handleSubmit; the category is one of the select's options
\* (or empty when the list is empty), the member is optional
ExpenseFormSubmit(date, category, memberId, amount) ==
    /\ view = "main"
    /\ Len(transactions) < MaxTx
    /\ category = "" \/ category \in Range(expenseCategories)
    /\ memberId = Undefined \/ \E i \in DOMAIN members : members[i].id = memberId
    /\ IF amount <= 0 \/ category = ""
       THEN UNCHANGED transactions
       ELSE handleAddTransaction("expense", date, category, amount, memberId)
    /\ ran' = NoRun
    /\ UNCHANGED <<members, expenseCategories, password, view, gate, reader,
                   clock, search>>

\* an append that does not look for the name in the list
handleAddExpenseCategoryUnchecked(category) ==
    /\ view = "main"
    /\ Len(expenseCategories) < MaxCategories
    /\ IF category # ""
       THEN expenseCategories' = Append(expenseCategories, category)
       ELSE UNCHANGED expenseCategories
    /\ ran' = NoRun
    /\ UNCHANGED <<members, transactions, password, view, gate, reader, clock,
                   search>>

\* ExpenseForm.handleAddCategory, then handleAddExpenseCategory: the name
\* typed into the prompt, trimmed
handleAddExpenseCategory(category) ==
    /\ view = "main"
    /\ Len(expenseCategories) < MaxCategories
    /\ IF category # "" /\ category \notin Range(expenseCategories)
       THEN expenseCategories' = Append(expenseCategories, category)
       ELSE UNCHANGED expenseCategories
    /\ ran' = NoRun
    /\ UNCHANGED <<members, transactions, password, view, gate, reader, clock,
                   search>>

\* .sort((a, b) => a.name.localeCompare(b.name, 'ko')), a stable sort
InsertMember(s, m) ==
    LET keep == {i \in DOMAIN s : localeCompare(s[i].name, m.name) <= 0}
        k == IF keep = {} THEN 0 ELSE CHOOSE i \in keep : \A j \in keep : j <= i
    IN  SubSeq(s, 1, k) \o <<m>> \o SubSeq(s, k + 1, Len(s))

RECURSIVE SortMembers(_)
SortMembers(s) ==
    IF s = <<>> THEN <<>>
    ELSE InsertMember(SortMembers(SubSeq(s, 1, Len(s) - 1)), s[Len(s)])

\* the header buttons and the close buttons of the three views
setView(v) ==
    /\ view' = v
    /\ search' = Mounted(v)
    /\ ran' = NoRun
    /\ UNCHANGED <<store, gate, reader, clock>>

\* AddMemberModal.handleSubmit, then handleAddMember; a blank name is refused
handleAddMember(name) ==
    /\ view = "addMember"
    /\ Len(members) < MaxMembers
    /\ IF name = ""
       THEN UNCHANGED <<members, view>>
       ELSE /\ members' = SortMembers(Append(members, Member(now, name)))
            /\ view' = "main"
    /\ ran' = NoRun
    /\ UNCHANGED <<transactions, expenseCategories, password, gate, reader,
                   clock, search>>

\* EditMembersModal.handleEditSave, then handleUpdateMember; a blank name is
\* refused
handleUpdateMember(id, name) ==
    /\ view = "editMembers"
    /\ \E i \in DOMAIN members : members[i].id = id
    /\ IF name = ""
       THEN UNCHANGED members
       ELSE members' = SortMembers(
                [i \in DOMAIN members |->
                    IF members[i].id = id THEN Member(id, name) ELSE members[i]])
    /\ ran' = NoRun
    /\ UNCHANGED <<transactions, expenseCategories, password, view, gate,
                   reader, clock, search>>

\* a deletion that takes the member's entries along
handleDeleteMemberCascade(id) ==
    /\ view = "editMembers"
    /\ \E i \in DOMAIN members : members[i].id = id
    /\ members' = SelectSeq(members, LAMBDA m : m.id # id)
    /\ transactions' = SelectSeq(transactions, LAMBDA tx : tx.memberId # id)
    /\ ran' = NoRun
    /\ UNCHANGED <<expenseCategories, password, view, gate, reader, clock,
                   search>>

\* setMembers(prev => prev.filter(m => m.id !== id)), once
\* EditMembersModal.handleDelete has been confirmed
handleDeleteMember(id) ==
    /\ view = "editMembers"
    /\ \E i \in DOMAIN members : members[i].id = id
    /\ members' = SelectSeq(members, LAMBDA m : m.id # id)
    /\ ran' = NoRun
    /\ UNCHANGED <<transactions, expenseCategories, password, view, gate,
                   reader, clock, search>>

-----------------------------------------------------------------------------
(* The access gate *)

\* runProtectedAction: the dialog opens in the mode the stored code asks
\* for; its onConfirm closes over the action and the code of this render
runProtectedAction(action) ==
    /\ passwordModalProps' =
          IF password # ""
          THEN [mode |-> "enter", action |-> action, password |-> password]
          ELSE [mode |-> "create", action |-> action, password |-> ""]
    /\ showPasswordModal' = TRUE
    /\ ran' = NoRun
    /\ UNCHANGED <<store, view, reader, clock, search>>

\* the 데이터 저장 button
handleSaveData == runProtectedAction(Action("save", <<>>))

\* the 회원수정 button
EditMembersClick == runProtectedAction(Action("editMembers", <<>>))

\* a file chosen in the 데이터 불러오기 input
handleLoadData(file) == runProtectedAction(Action("load", <<file>>))

\* /^\d{4}$/.test(password)
FourDigits(pw) == pw \in {"1234", "4321"}

\* action(): performSave writes a file out and leaves the state alone,
\* () => setView('editMembers') changes the view, performLoad asks
\* window.confirm and starts reading the file
RunAction(action, confirmed, pw, confirmPassword) ==
    /\ ran' = Ran(action.kind, pw, confirmPassword)
    /\ view' = IF action.kind = "editMembers" THEN "editMembers" ELSE view
    /\ search' = IF action.kind = "editMembers" THEN Mounted("editMembers")
                 ELSE search
    /\ reader' = IF action.kind = "load" /\ confirmed THEN action.files
                 ELSE reader

\* a refusal that also hides the dialog
RefuseAndClose(pw, confirmPassword) ==
    /\ ran' = Ran("refused", pw, confirmPassword)
    /\ showPasswordModal' = FALSE
    /\ UNCHANGED <<password, view, reader, search>>

\* setError(...) or alert(...): the dialog stays as it is
Refuse(pw, confirmPassword) ==
    /\ ran' = Ran("refused", pw, confirmPassword)
    /\ UNCHANGED <<password, showPasswordModal, view, reader, search>>

\* a dialog that takes any four digits for the stored code
PasswordModalSubmitAnyCode(pw, confirmPassword, confirmed) ==
    /\ showPasswordModal
    /\ passwordModalProps.mode = "enter" => confirmPassword = ""
    /\ IF ~FourDigits(pw)
          \/ (passwordModalProps.mode = "create" /\ pw # confirmPassword)
       THEN Refuse(pw, confirmPassword)
       ELSE IF passwordModalProps.mode = "enter"
       THEN /\ showPasswordModal' = FALSE
            /\ RunAction(passwordModalProps.action, confirmed, pw,
                         confirmPassword)
            /\ UNCHANGED password
       ELSE /\ password' = pw
            /\ showPasswordModal' = FALSE
            /\ RunAction(passwordModalProps.action, confirmed, pw,
                         confirmPassword)
    /\ UNCHANGED <<members, transactions, expenseCategories,
                   passwordModalProps, clock>>

\* PasswordModal.handleSubmit, then the onConfirm that runProtectedAction
\* set; the confirmation field is there in the create mode only
PasswordModalSubmit(pw, confirmPassword, confirmed) ==
    /\ showPasswordModal
    /\ passwordModalProps.mode = "enter" => confirmPassword = ""
    /\ IF ~FourDigits(pw)
          \/ (passwordModalProps.mode = "create" /\ pw # confirmPassword)
       THEN Refuse(pw, confirmPassword)
       ELSE IF passwordModalProps.mode = "enter"
       THEN IF pw = passwordModalProps.password
            THEN /\ showPasswordModal' = FALSE
                 /\ RunAction(passwordModalProps.action, confirmed, pw,
                              confirmPassword)
                 /\ UNCHANGED password
            ELSE Refuse(pw, confirmPassword)
       ELSE /\ password' = pw
            /\ showPasswordModal' = FALSE
            /\ RunAction(passwordModalProps.action, confirmed, pw,
                         confirmPassword)
    /\ UNCHANGED <<members, transactions, expenseCategories,
                   passwordModalProps, clock>>

\* the close button of the dialog
PasswordModalClose ==
    /\ showPasswordModal
    /\ showPasswordModal' = FALSE
    /\ ran' = NoRun
    /\ UNCHANGED <<store, view, passwordModalProps, reader, clock, search>>

\* an onload that replaces each collection the file holds
ReaderOnLoadEachKey ==
    /\ reader # <<>>
    /\ members' = IF reader[1].parses /\ "members" \in reader[1].has
                  THEN reader[1].members ELSE members
    /\ transactions' =
          IF reader[1].parses /\ "transactions" \in reader[1].has
          THEN reader[1].transactions ELSE transactions
    /\ expenseCategories' =
          IF reader[1].parses /\ "expenseCategories" \in reader[1].has
          THEN reader[1].expenseCategories ELSE expenseCategories
    /\ reader' = <<>>
    /\ ran' = NoRun
    /\ UNCHANGED <<password, view, gate, clock, search>>

\* reader.onload: the file is parsed and, when it holds all three
\* collections, each of them replaces the stored one
ReaderOnLoad ==
    /\ reader # <<>>
    /\ IF reader[1].parses
          /\ {"members", "transactions", "expenseCategories"} \subseteq reader[1].has
       THEN /\ members' = reader[1].members
            /\ transactions' = reader[1].transactions
            /\ expenseCategories' = reader[1].expenseCategories
       ELSE UNCHANGED <<members, transactions, expenseCategories>>
    /\ reader' = <<>>
    /\ ran' = NoRun
    /\ UNCHANGED <<password, view, gate, clock, search>>

-----------------------------------------------------------------------------
(* SearchModal: its handlers and the values it derives *)

\* the two tabs
setSearchType(type) ==
    /\ view = "search"
    /\ search' = [search EXCEPT !.searchType = type]
    /\ ran' = NoRun
    /\ UNCHANGED <<store, view, gate, reader, clock>>

\* the select of the by-name tab: its options are the members of the roster
setNameQuery(id) ==
    /\ view = "search"
    /\ search.searchType = "name"
    /\ \E i \in DOMAIN members : members[i].id = id
    /\ search' = [search EXCEPT !.nameQuery = id]
    /\ ran' = NoRun
    /\ UNCHANGED <<store, view, gate, reader, clock>>

\* the kind select of the by-category tab, which empties the category
setCategoryType(type) ==
    /\ view = "search"
    /\ search.searchType = "category"
    /\ search' = [search EXCEPT !.categoryType = type, !.categoryQuery = ""]
    /\ ran' = NoRun
    /\ UNCHANGED <<store, view, gate, reader, clock>>

\* the category select: its options are the categories of the chosen kind
setCategoryQuery(category) ==
    /\ view = "search"
    /\ search.searchType = "category"
    /\ category \in (IF search.categoryType = "income"
                     THEN Range(INCOME_CATEGORIES)
                     ELSE Range(expenseCategories))
    /\ search' = [search EXCEPT !.categoryQuery = category]
    /\ ran' = NoRun
    /\ UNCHANGED <<store, view, gate, reader, clock>>

\* the two date fields
setStartDate(date) ==
    /\ view = "search"
    /\ search' = [search EXCEPT !.startDate = date]
    /\ ran' = NoRun
    /\ UNCHANGED <<store, view, gate, reader, clock>>

setEndDate(date) ==
    /\ view = "search"
    /\ search' = [search EXCEPT !.endDate = date]
    /\ ran' = NoRun
    /\ UNCHANGED <<store, view, gate, reader, clock>>

\* a range that leaves its last day out
filteredTransactionsExclusive(txs, startDate, endDate) ==
    SelectSeq(txs, LAMBDA tx :
        StrGeq(tx.date, startDate) /\ StrLess(tx.date, endDate))

\* transactions.filter(tx => tx.date >= startDate && tx.date <= endDate)
filteredTransactionsOf(txs, startDate, endDate) ==
    SelectSeq(txs, LAMBDA tx :
        StrGeq(tx.date, startDate) /\ ~StrLess(endDate, tx.date))

filteredTransactions ==
    filteredTransactionsOf(transactions, search.startDate, search.endDate)

RECURSIVE ReduceTotal(_, _)
\* result.reduce((sum, tx) => sum + tx.amount, 0)
ReduceTotal(s, sum) ==
    IF s = <<>> THEN sum ELSE ReduceTotal(Tail(s), sum + Head(s).amount)

\* what a search memo returns: null, or the matches and their total
NoResult == [isNull |-> TRUE, transactions |-> <<>>, total |-> 0]
Result(result) ==
    [isNull |-> FALSE, transactions |-> result,
     total |-> ReduceTotal(result, 0)]

\* a by-name search that takes the member's expenses along
nameSearchResultAnyKind(filtered, state) ==
    IF state.searchType # "name" \/ state.nameQuery = Undefined THEN NoResult
    ELSE Result(SelectSeq(filtered, LAMBDA tx :
                    tx.memberId = state.nameQuery))

nameSearchResultOf(filtered, state) ==
    IF state.searchType # "name" \/ state.nameQuery = Undefined THEN NoResult
    ELSE Result(SelectSeq(filtered, LAMBDA tx :
                    tx.memberId = state.nameQuery /\ tx.type = "income"))

nameSearchResult == nameSearchResultOf(filteredTransactions, search)

categorySearchResultOf(filtered, state) ==
    IF state.searchType # "category" \/ state.categoryQuery = "" THEN NoResult
    ELSE Result(SelectSeq(filtered, LAMBDA tx :
                    tx.type = state.categoryType
                        /\ tx.category = state.categoryQuery))

categorySearchResult == categorySearchResultOf(filteredTransactions, search)

-----------------------------------------------------------------------------
(* The derived values are functions of the store, recomputed on every       *)
(* render.  To check them the store starts as the browser's storage holds   *)
(* it (usePersistentState reads whatever an earlier session or an imported  *)
(* file has left there) and the forms then add entries.                     *)

\* a stored amount is whatever the file carried; a form adds positive ones
StoredAmounts == {-1, 2}
FormAmounts == {0, 2}

InitStored(views, rosters, entries, todays, offsets) ==
    /\ members \in rosters
    /\ transactions \in SeqsUpTo(entries, MaxTx)
    /\ expenseCategories = DefaultExpenseCategories
    /\ password = ""
    /\ view \in views
    /\ showPasswordModal = FALSE
    /\ passwordModalProps = NoModalProps
    /\ reader = <<>>
    /\ ran = NoRun
    /\ now = 1
    /\ todayStr \in todays
    /\ tzOffset \in offsets
    /\ search = SearchInitial(todayStr)

(* The ledger as the running balance sees it: entries that differ in date,  *)
(* kind, amount and id.                                                     *)

LedgerDates == {<<2024, 1, 6>>, <<2024, 1, 7>>}
StoredIds == {1, 2}

LedgerEntries ==
    {Transaction(id, "income", date, "sipiljo", amount, 1) :
        id \in StoredIds, date \in LedgerDates, amount \in StoredAmounts}
    \cup
    {Transaction(id, "expense", date, "unyeongbi", amount, Undefined) :
        id \in StoredIds, date \in LedgerDates, amount \in StoredAmounts}

InitLedger ==
    InitStored({"main"}, {<<Member(1, "gim")>>}, LedgerEntries, {<<2024, 1, 7>>}, {9})

NextLedger ==
    \/ \E date \in LedgerDates, memberId \in {Undefined, 1},
          amount \in FormAmounts :
            IncomeFormSubmit(date, "sipiljo", memberId, amount)
    \/ \E date \in LedgerDates, amount \in FormAmounts :
            ExpenseFormSubmit(date, "unyeongbi", Undefined, amount)

SpecLedger == InitLedger /\ [][NextLedger]_vars

(* The ledger as the today split sees it: entries dated before today, today *)
(* and after today.                                                         *)

SplitDates == {<<2024, 1, 6>>, <<2024, 1, 7>>, <<2024, 1, 8>>}

SplitEntries ==
    {Transaction(1, "income", date, "sipiljo", amount, 1) :
        date \in SplitDates, amount \in StoredAmounts}
    \cup
    {Transaction(1, "expense", date, "unyeongbi", amount, Undefined) :
        date \in SplitDates, amount \in StoredAmounts}

InitSplit ==
    InitStored({"main"}, {<<Member(1, "gim")>>}, SplitEntries, {<<2024, 1, 7>>}, {9})

NextSplit ==
    \/ \E date \in SplitDates, memberId \in {Undefined, 1},
          amount \in FormAmounts :
            IncomeFormSubmit(date, "sipiljo", memberId, amount)
    \/ \E date \in SplitDates, amount \in FormAmounts :
            ExpenseFormSubmit(date, "unyeongbi", Undefined, amount)

SpecSplit == InitSplit /\ [][NextSplit]_vars

(* The ledger as the category order sees it: incomes of one date in every   *)
(* category of the program and in one that no list names.                   *)

CategoryDate == <<2024, 1, 7>>
StoredCategories == Range(INCOME_CATEGORIES) \cup {"teukbyeol"}

CategoryEntries ==
    {Transaction(id, "income", CategoryDate, category, 2, 1) :
        id \in StoredIds, category \in StoredCategories}

InitCategory ==
    InitStored({"main"}, {<<Member(1, "gim")>>}, CategoryEntries, {CategoryDate}, {9})

NextCategory ==
    \E category \in Range(INCOME_CATEGORIES), memberId \in {Undefined, 1},
       amount \in FormAmounts :
        IncomeFormSubmit(CategoryDate, category, memberId, amount)

SpecCategory == InitCategory /\ [][NextCategory]_vars

(* The ledger as the name order sees it: incomes of one date and category   *)
(* given by a member, by a member since deleted, and by nobody.             *)

NameRosters == {<<Member(1, "mun"), Member(2, "bak")>>, <<Member(1, "gim")>>}
StoredMemberIds == {Undefined, 1, 2}

NameEntries ==
    {Transaction(id, "income", CategoryDate, "sipiljo", amount, memberId) :
        id \in StoredIds, amount \in {1, 2}, memberId \in StoredMemberIds}

InitNames ==
    InitStored({"main", "editMembers"}, NameRosters, NameEntries,
               {CategoryDate}, {9})

NextNames ==
    \/ \E memberId \in StoredMemberIds, amount \in FormAmounts :
          IncomeFormSubmit(CategoryDate, "sipiljo", memberId, amount)
    \/ \E id \in StoredMemberIds \ {Undefined} : handleDeleteMember(id)
    \/ setView("main")

SpecNames == InitNames /\ [][NextNames]_vars

(* The ledger as the windows see it: entries around the start of the week   *)
(* and of the year, dated up to and after today.                            *)

\* 2024-01-03 is a Wednesday: its week began on Sunday 2023-12-31
WindowToday == <<2024, 1, 3>>
WindowDates ==
    {<<2023, 12, 30>>, <<2023, 12, 31>>, <<2024, 1, 1>>, <<2024, 1, 3>>,
     <<2024, 1, 4>>}
WindowCategories == {"sipiljo", "seongyo", "geonchuk", "jeolgi"}
\* New York, London in winter, Seoul
TimeZones == {-5, 0, 9}

WindowEntries ==
    {Transaction(1, "income", date, category, 2, 1) :
        date \in WindowDates, category \in WindowCategories}
    \cup
    {Transaction(1, "expense", date, "unyeongbi", 2, Undefined) :
        date \in WindowDates}

InitWindow ==
    InitStored({"main"}, {<<Member(1, "gim")>>}, WindowEntries, {WindowToday}, {9})

NextWindow ==
    \/ \E date \in WindowDates, category \in WindowCategories,
          memberId \in {Undefined, 1}, amount \in FormAmounts :
            IncomeFormSubmit(date, category, memberId, amount)
    \/ \E date \in WindowDates, amount \in FormAmounts :
            ExpenseFormSubmit(date, "unyeongbi", Undefined, amount)

SpecWindow == InitWindow /\ [][NextWindow]_vars

\* the same ledger in each of the time zones
InitZones ==
    InitStored({"main"}, {<<Member(1, "gim")>>}, WindowEntries, {WindowToday}, TimeZones)

SpecZones == InitZones /\ [][NextWindow]_vars

(* The ledger as the weekly buckets see it: entries of this week and of the *)
(* week before, with the amounts a stored file can carry.                   *)

BucketDates == {<<2023, 12, 30>>, <<2024, 1, 3>>}

BucketEntries ==
    {Transaction(1, "income", date, category, amount, 1) :
        date \in BucketDates, category \in WindowCategories,
        amount \in StoredAmounts}
    \cup
    {Transaction(1, "expense", date, "unyeongbi", amount, Undefined) :
        date \in BucketDates, amount \in StoredAmounts}

InitBuckets ==
    InitStored({"main"}, {<<Member(1, "gim")>>}, BucketEntries, {WindowToday}, {9})

NextBuckets ==
    \/ \E date \in BucketDates, category \in WindowCategories,
          memberId \in {Undefined, 1}, amount \in FormAmounts :
            IncomeFormSubmit(date, category, memberId, amount)
    \/ \E date \in BucketDates, amount \in FormAmounts :
            ExpenseFormSubmit(date, "unyeongbi", Undefined, amount)

SpecBuckets == InitBuckets /\ [][NextBuckets]_vars

(* The ledger as the forms fill it: a store without entries, the two forms  *)
(* and the clock.                                                           *)

InitAdds ==
    InitStored({"main"}, {<<Member(1, "gim")>>}, {}, {<<2024, 1, 7>>}, {9})

NextAdds ==
    \/ Tick
    \/ \E date \in LedgerDates, memberId \in {Undefined, 1},
          amount \in FormAmounts :
            IncomeFormSubmit(date, "sipiljo", memberId, amount)
    \/ \E date \in LedgerDates, amount \in FormAmounts :
            ExpenseFormSubmit(date, "unyeongbi", Undefined, amount)

SpecAdds == InitAdds /\ [][NextAdds]_vars

(* The ledger as the search sees it: entries of two members and of both     *)
(* kinds around the range, an expense in a category named as an income      *)
(* category is, and every query the modal can be set to.                    *)

\* the longest list of entries the search is run on
MaxSearchTx == 2

SearchDates == {<<2024, 1, 5>>, <<2024, 1, 6>>, <<2024, 1, 7>>}
\* the dates typed into the range fields
RangeDates == {<<2024, 1, 6>>, <<2024, 1, 7>>}

SearchEntries ==
    {Transaction(1, "income", date, "sipiljo", 2, memberId) :
        date \in SearchDates, memberId \in {1, 2}}
    \cup
    {Transaction(1, "expense", date, category, 3, 1) :
        date \in SearchDates, category \in {"unyeongbi", "sipiljo"}}

InitSearch ==
    /\ members = <<Member(1, "mun"), Member(2, "bak")>>
    /\ transactions \in SeqsUpTo(SearchEntries, MaxSearchTx)
    /\ expenseCategories = DefaultExpenseCategories
    /\ password = ""
    /\ view = "search"
    /\ showPasswordModal = FALSE
    /\ passwordModalProps = NoModalProps
    /\ reader = <<>>
    /\ ran = NoRun
    /\ now = 1
    /\ todayStr = <<2024, 1, 7>>
    /\ tzOffset = 9
    /\ search = SearchInitial(todayStr)

NextSearch ==
    \/ \E type \in {"name", "category"} : setSearchType(type)
    \/ \E id \in {1, 2} : setNameQuery(id)
    \/ \E type \in {"income", "expense"} : setCategoryType(type)
    \/ \E category \in {"sipiljo", "unyeongbi"} : setCategoryQuery(category)
    \/ \E date \in RangeDates : setStartDate(date)
    \/ \E date \in RangeDates : setEndDate(date)

SpecSearch == InitSearch /\ [][NextSearch]_vars

(* The list of expense categories as the expense form fills it: new names,  *)
(* a name of the list and the empty name, with expenses entered in between. *)

\* sikbi 식비 and gyoyukbi 교육비 are new names
PromptNames == {"", "sikbi", "gyoyukbi", "unyeongbi"}

NextExpenseCategories ==
    \/ \E category \in PromptNames : handleAddExpenseCategory(category)
    \/ \E category \in PromptNames, amount \in FormAmounts :
          ExpenseFormSubmit(<<2024, 1, 7>>, category, Undefined, amount)

SpecExpenseCategories == InitAdds /\ [][NextExpenseCategories]_vars

-----------------------------------------------------------------------------
(* The program from a fresh installation: every handler of App with the     *)
(* inputs a user can give it, and the tabs and the member select of the     *)
(* search (SpecSearch has all its controls).                                *)

UiDates == {<<2024, 1, 7>>}
UiNames == {"", "gim"}
\* sikbi 식비 is a new name, unyeongbi one of the list, "" an empty prompt
UiCategories == {"", "sikbi", "unyeongbi"}
UiPasswords == {"12", "1234", "4321"}

\* files a user can choose: one that does not parse, one without its
\* transactions, one whole
UiFiles ==
    {File(FALSE, {}, <<>>, <<>>, <<>>),
     File(TRUE, {"members", "expenseCategories"},
          <<Member(1, "mun")>>, <<>>, <<"sikbi">>),
     File(TRUE, {"members", "transactions", "expenseCategories"},
          <<Member(1, "bak")>>,
          <<Transaction(1, "income", <<2024, 1, 7>>, "teukbyeol", 2, Undefined),
            Transaction(1, "expense", <<2024, 1, 7>>, "gujebi", -1, 2)>>,
          <<"gujebi">>)}

Init ==
    /\ members = <<>>
    /\ transactions = <<>>
    /\ expenseCategories = DefaultExpenseCategories
    /\ password = ""
    /\ view = "main"
    /\ showPasswordModal = FALSE
    /\ passwordModalProps = NoModalProps
    /\ reader = <<>>
    /\ ran = NoRun
    /\ now = 1
    /\ todayStr = <<2024, 1, 7>>
    /\ tzOffset = 9
    /\ search = SearchInitial(todayStr)

Next ==
    \/ Tick
    \/ \E v \in {"main", "addMember", "search"} : setView(v)
    \/ \E name \in UiNames : handleAddMember(name)
    \/ \E id \in 1..MaxNow, name \in UiNames : handleUpdateMember(id, name)
    \/ \E id \in 1..MaxNow : handleDeleteMember(id)
    \/ \E date \in UiDates, memberId \in 0..MaxNow, amount \in FormAmounts :
          /\ Len(transactions) < MaxUiTx
          /\ IncomeFormSubmit(date, "sipiljo", memberId, amount)
    \/ \E date \in UiDates, category \in UiCategories, amount \in FormAmounts :
          /\ Len(transactions) < MaxUiTx
          /\ ExpenseFormSubmit(date, category, Undefined, amount)
    \/ \E category \in UiCategories : handleAddExpenseCategory(category)
    \/ handleSaveData
    \/ EditMembersClick
    \/ \E file \in UiFiles : handleLoadData(file)
    \/ \E pw \in UiPasswords, confirmPassword \in UiPasswords \cup {""},
          confirmed \in BOOLEAN :
            PasswordModalSubmit(pw, confirmPassword, confirmed)
    \/ PasswordModalClose
    \/ ReaderOnLoad
    \/ \E type \in {"name", "category"} : setSearchType(type)
    \/ \E id \in 1..MaxNow : setNameQuery(id)

Spec == Init /\ [][Next]_vars

(* The access gate and what it guards, from a fresh installation: the three *)
(* protected buttons, the dialog, the file reader, the views, and the       *)
(* removal of a member from the roster-edit view.                           *)

NextGate ==
    \/ \E v \in {"main", "addMember", "search"} : setView(v)
    \/ handleSaveData
    \/ EditMembersClick
    \/ \E file \in UiFiles : handleLoadData(file)
    \/ \E pw \in UiPasswords, confirmPassword \in UiPasswords \cup {""},
          confirmed \in BOOLEAN :
            PasswordModalSubmit(pw, confirmPassword, confirmed)
    \/ PasswordModalClose
    \/ ReaderOnLoad
    \/ handleDeleteMember(1)

SpecGate == Init /\ [][NextGate]_vars

(* The store under every operation: two stored entries, one of them given   *)
(* by the one member of the roster, and then the forms, the roster          *)
(* handlers, the category prompt, the search, the gate and the import of a  *)
(* whole file.                                                              *)

FrameEntries ==
    <<Transaction(1, "income", <<2024, 1, 6>>, "sipiljo", 2, 1),
      Transaction(1, "expense", <<2024, 1, 7>>, "unyeongbi", 2, Undefined)>>

\* a whole file, with one entry
FrameFile ==
    File(TRUE, {"members", "transactions", "expenseCategories"},
         <<Member(1, "bak")>>,
         <<Transaction(1, "income", <<2024, 1, 7>>, "gamsa", 2, 1)>>,
         <<"gujebi">>)

InitFrame ==
    /\ members = <<Member(1, "gim")>>
    /\ transactions = FrameEntries
    /\ expenseCategories = DefaultExpenseCategories
    /\ password = "1234"
    /\ view = "main"
    /\ showPasswordModal = FALSE
    /\ passwordModalProps = NoModalProps
    /\ reader = <<>>
    /\ ran = NoRun
    /\ now = 1
    /\ todayStr = <<2024, 1, 7>>
    /\ tzOffset = 9
    /\ search = SearchInitial(todayStr)

NextFrame ==
    \/ \E memberId \in {Undefined, 1}, amount \in FormAmounts :
          IncomeFormSubmit(<<2024, 1, 7>>, "sipiljo", memberId, amount)
    \/ \E amount \in FormAmounts :
          ExpenseFormSubmit(<<2024, 1, 7>>, "unyeongbi", Undefined, amount)
    \/ \E category \in {"", "sikbi"} : handleAddExpenseCategory(category)
    \/ \E v \in {"main", "addMember", "search"} : setView(v)
    \/ \E name \in {"", "mun"} : handleAddMember(name)
    \/ \E name \in {"", "mun"} : handleUpdateMember(1, name)
    \/ handleDeleteMember(1)
    \/ handleSaveData
    \/ EditMembersClick
    \/ handleLoadData(FrameFile)
    \/ \E pw \in {"1234", "4321"}, confirmed \in BOOLEAN :
          PasswordModalSubmit(pw, "", confirmed)
    \/ PasswordModalClose
    \/ ReaderOnLoad
    \/ setSearchType("category")
    \/ setNameQuery(1)
    \/ setCategoryType("expense")
    \/ setCategoryQuery("unyeongbi")
    \/ setStartDate(<<2024, 1, 7>>)
    \/ setEndDate(<<2024, 1, 6>>)

SpecFrame == InitFrame /\ [][NextFrame]_vars

-----------------------------------------------------------------------------
(* What the claims speak of, stated without the operators of the program *)

RECURSIVE SumOver(_, _)
\* the sum of f[i] over the indices i of S
SumOver(f, S) ==
    IF S = {} THEN 0
    ELSE LET i == CHOOSE j \in S : TRUE
         IN  f[i] + SumOver(f, S \ {i})

\* +amount for income, -amount for expense
Signed(e) == IF e.type = "income" THEN e.amount ELSE 0 - e.amount

SignedOf(s) == [i \in DOMAIN s |-> Signed(s[i])]

\* the calendar order of two dates
Before(d1, d2) == DaysFromCivil(d1) < DaysFromCivil(d2)

\* an entry of the feed without its balance
Plain(e) ==
    Transaction(e.id, e.type, e.date, e.category, e.amount, e.memberId)

Count(s, x) == Cardinality({i \in DOMAIN s : s[i] = x})

\* the feed read in chronological order
Chronological == Reverse(transactionsWithBalance)

-----------------------------------------------------------------------------
(* C1: read in chronological order, the feed holds every stored entry once, *)
(* and the balance on its k-th entry is the sum of the signed amounts of    *)
(* its first k entries; so the last one carries the signed sum of all.      *)
C1_BalanceIsPrefixSum ==
    LET chron == Chronological
        plain == [k \in DOMAIN chron |-> Plain(chron[k])]
    IN  /\ Len(chron) = Len(transactions)
        /\ \A i \in DOMAIN transactions :
              Count(plain, transactions[i]) = Count(transactions, transactions[i])
        /\ \A k \in DOMAIN chron :
              chron[k].balance = SumOver(SignedOf(chron), 1..k)

\* three entries of both kinds, stored in another order than the chronological
C1_Witness ==
    LET chron == Chronological
    IN  /\ Len(transactions) = 3
        /\ \E i, j \in DOMAIN transactions :
              transactions[i].type = "income" /\ transactions[j].type = "expense"
        /\ [k \in DOMAIN chron |-> Plain(chron[k])] # transactions
        /\ chron[1].balance = 2
        /\ chron[2].balance = 4
        /\ chron[3].balance = 2

(* C2: the feed does not depend on the order in which the entries are      *)
(* stored: every reordering of the stored list, with the same roster, gives *)
(* the same entries in the same order with the same balances.               *)
C2_OrderIndependent ==
    LET feed == transactionsWithBalance
        n == Len(transactions)
    IN  \A p \in {f \in [1..n -> 1..n] : \A k \in 1..n : \E i \in 1..n : f[i] = k} :
            withBalance([i \in 1..n |-> transactions[p[i]]], members) = feed

(* C3: previousBalance is the signed sum of the entries dated before today, *)
(* todaysChange that of the entries dated today, entries dated after today  *)
(* count in neither, and todaysBalance is the sum of the two.               *)
C3_TodaySplit ==
    LET past == {i \in DOMAIN transactions : Before(transactions[i].date, todayStr)}
        present == {i \in DOMAIN transactions : transactions[i].date = todayStr}
    IN  /\ balanceData.previousBalance = SumOver(SignedOf(transactions), past)
        /\ balanceData.todaysChange = SumOver(SignedOf(transactions), present)
        /\ balanceData.todaysBalance
              = SumOver(SignedOf(transactions), past \cup present)
        /\ balanceData.todaysBalance
              = balanceData.previousBalance + balanceData.todaysChange

\* one entry before today, one today, one after today
C3_Witness ==
    /\ Len(transactions) = 3
    /\ Before(transactions[1].date, todayStr)
    /\ transactions[2].date = todayStr
    /\ Before(todayStr, transactions[3].date)
    /\ balanceData.previousBalance = 2
    /\ balanceData.todaysChange = -2
    /\ balanceData.todaysBalance = 0

(* C8: the feed runs from the latest date to the earliest; within one date  *)
(* no income is displayed before an expense, and the balance on an expense  *)
(* counts every income of its date.                                         *)
C8_DateThenKindOrder ==
    LET feed == transactionsWithBalance
    IN  /\ \A i, j \in DOMAIN feed :
              i < j => ~Before(feed[i].date, feed[j].date)
        /\ \A i, j \in DOMAIN feed :
              (i < j /\ feed[i].date = feed[j].date)
                  => ~(feed[i].type = "income" /\ feed[j].type = "expense")
        /\ \A i \in DOMAIN feed :
              feed[i].type = "expense" =>
                feed[i].balance =
                    SumOver(SignedOf(feed),
                        {j \in DOMAIN feed :
                            \/ Before(feed[j].date, feed[i].date)
                            \/ /\ feed[j].date = feed[i].date
                               /\ feed[j].type = "income"
                            \/ /\ feed[j].date = feed[i].date
                               /\ feed[j].type = "expense"
                               /\ j >= i})

\* an expense stored before an income of its date, and an entry of a later
\* date stored first
C8_Witness ==
    LET feed == transactionsWithBalance
    IN  /\ Len(transactions) = 3
        /\ Before(transactions[2].date, transactions[1].date)
        /\ transactions[3].date = transactions[2].date
        /\ transactions[2].type = "expense"
        /\ transactions[3].type = "income"
        /\ transactions[2].id # transactions[3].id
        /\ Plain(feed[1]) = transactions[1]
        /\ Plain(feed[2]) = transactions[2]
        /\ Plain(feed[3]) = transactions[3]

-----------------------------------------------------------------------------
(* The windows as the claims define them *)

\* the Sunday on or before today: today minus its weekday index, Sunday = 0
WeekStartDay(today) ==
    DaysFromCivil(today) - ((DaysFromCivil(today) + 4) % 7)

\* January 1 of today's year
YearStartDay(today) == DaysFromCivil(<<today[1], 1, 1>>)

InWindow(e, firstDay, today) ==
    /\ firstDay <= DaysFromCivil(e.date)
    /\ DaysFromCivil(e.date) <= DaysFromCivil(today)

\* the sum of the amounts of the entries of s of one kind that P admits
AmountOf(s, type, P(_)) ==
    SumOver([i \in DOMAIN s |-> s[i].amount],
            {i \in DOMAIN s : s[i].type = type /\ P(s[i])})

\* s without its i-th entry
Without(s, i) == SubSeq(s, 1, i - 1) \o SubSeq(s, i + 1, Len(s))

\* what the i-th entry adds to the weekly and to the yearly totals
WeeklyShare(i) ==
    LET all == periodicalSummary
        rest == periodicalSummaryOf(Without(transactions, i), todayStr, tzOffset)
    IN  (all.weeklyIncome + all.weeklyExpense)
            - (rest.weeklyIncome + rest.weeklyExpense)

YearlyShare(i) ==
    LET all == periodicalSummary
        rest == periodicalSummaryOf(Without(transactions, i), todayStr, tzOffset)
    IN  (all.yearlyIncome + all.yearlyExpense)
            - (rest.yearlyIncome + rest.yearlyExpense)

(* C4: the yearly totals are the sums over the entries dated from January 1 *)
(* of today's year to today, the weekly totals and the weekly breakdown the *)
(* sums over the entries dated from the Sunday on or before today to today; *)
(* an entry dated after today counts in none of them.                       *)
C4_WindowsEndToday ==
    LET p == periodicalSummary
        c == weeklyCategoryTotals
        InYear(e) == InWindow(e, YearStartDay(todayStr), todayStr)
        InWeek(e) == InWindow(e, WeekStartDay(todayStr), todayStr)
    IN  /\ p.yearlyIncome = AmountOf(transactions, "income", InYear)
        /\ p.yearlyExpense = AmountOf(transactions, "expense", InYear)
        /\ p.weeklyIncome = AmountOf(transactions, "income", InWeek)
        /\ p.weeklyExpense = AmountOf(transactions, "expense", InWeek)
        /\ \A cat \in gyeongsangbiCategories :
              c.weeklyGyeongsangbiBreakdown[cat] =
                  AmountOf(transactions, "income",
                           LAMBDA e : InWeek(e) /\ e.category = cat)
        /\ \A i \in DOMAIN transactions :
              Before(todayStr, transactions[i].date) =>
                /\ WeeklyShare(i) = 0
                /\ YearlyShare(i) = 0
                /\ weeklyCategoryTotalsOf(Without(transactions, i),
                                          todayStr, tzOffset) = c

(* C5: an entry dated on the Sunday on or before today counts in the weekly *)
(* totals and one dated the day before does not; an entry dated January 1   *)
(* of today's year counts in the yearly totals and one dated December 31 of *)
(* the year before does not.                                                *)
C5_WindowLowerBoundaries ==
    \A i \in DOMAIN transactions :
        LET e == transactions[i]
            day == DaysFromCivil(e.date)
        IN  /\ day = WeekStartDay(todayStr) => WeeklyShare(i) = e.amount
            /\ day = WeekStartDay(todayStr) - 1 => WeeklyShare(i) = 0
            /\ day = YearStartDay(todayStr) => YearlyShare(i) = e.amount
            /\ day = YearStartDay(todayStr) - 1 => YearlyShare(i) = 0

(* C6: the weekly breakdown has the six recurring categories as its keys,   *)
(* no other key, and no negative value, whatever the entries are.           *)
C6_BreakdownComplete ==
    LET breakdown == weeklyCategoryTotals.weeklyGyeongsangbiBreakdown
    IN  /\ DOMAIN breakdown =
              {"jujeong", "sipiljo", "gamsa", "saengil", "simbang",
               "ilcheonbeonje"}
        /\ \A cat \in DOMAIN breakdown : breakdown[cat] >= 0

(* C7: an income of the weekly window adds its amount to weeklyIncome and   *)
(* to its own bucket when its category is recurring, to weeklySeongyo when  *)
(* it is seongyo, to weeklyGeonchuk when it is geonchuk, and to no bucket   *)
(* otherwise; an expense adds to no bucket; so the buckets together never   *)
(* exceed weeklyIncome, and each balance is income minus expense.           *)
C7_BucketsWithinIncome ==
    LET p == periodicalSummary
        c == weeklyCategoryTotals
        Buckets(t) ==
            [cat \in DOMAIN t.weeklyGyeongsangbiBreakdown \cup {"seongyo", "geonchuk"} |->
                IF cat = "seongyo" THEN t.weeklySeongyo
                ELSE IF cat = "geonchuk" THEN t.weeklyGeonchuk
                ELSE t.weeklyGyeongsangbiBreakdown[cat]]
        all == Buckets(c)
    IN  /\ p.weeklyBalance = p.weeklyIncome - p.weeklyExpense
        /\ p.yearlyBalance = p.yearlyIncome - p.yearlyExpense
        /\ SumOver(all, DOMAIN all) <= p.weeklyIncome
        /\ \A i \in DOMAIN transactions :
              LET e == transactions[i]
                  rest == Buckets(weeklyCategoryTotalsOf(
                              Without(transactions, i), todayStr, tzOffset))
                  restP == periodicalSummaryOf(
                              Without(transactions, i), todayStr, tzOffset)
                  share == p.weeklyIncome - restP.weeklyIncome
              IN  /\ e.type = "expense" => share = 0
                  /\ \A cat \in DOMAIN all :
                        all[cat] - rest[cat] =
                            IF e.type = "income" /\ e.category = cat
                            THEN share ELSE 0

(* C9: among the incomes of one date the feed follows the display order of  *)
(* the ten categories, sipiljo first and gita last, and an income whose     *)
(* category is not among the ten comes after all those whose category is.   *)
C9_CategoryDisplayOrder ==
    LET feed == transactionsWithBalance
        display == <<"sipiljo", "seongyo", "geonchuk", "gamsa", "jujeong",
                     "jeolgi", "saengil", "simbang", "ilcheonbeonje", "gita">>
        Rank(category) ==
            IF \E k \in DOMAIN display : display[k] = category
            THEN CHOOSE k \in DOMAIN display : display[k] = category
            ELSE Len(display) + 1
    IN  \A i, j \in DOMAIN feed :
            (/\ i < j
             /\ feed[i].date = feed[j].date
             /\ feed[i].type = "income"
             /\ feed[j].type = "income")
                => Rank(feed[i].category) <= Rank(feed[j].category)

(* C10: among the incomes of one date and one category the feed is in       *)
(* ascending order of the giver's name, where every entry without a giver   *)
(* on the roster (no memberId, or one that matches no member) goes by one   *)
(* and the same name.                                                       *)
C10_NameOrderOneSentinel ==
    LET feed == transactionsWithBalance
        Resolved(e) ==
            e.memberId # Undefined
                /\ \E k \in DOMAIN members : members[k].id = e.memberId
        NameOf(e, sentinel) ==
            IF Resolved(e)
            THEN (CHOOSE m \in Range(members) : m.id = e.memberId).name
            ELSE sentinel
    IN  \E sentinel \in {"mumyeong", "mijijeong"} :
            \A i, j \in DOMAIN feed :
                (/\ i < j
                 /\ feed[i].date = feed[j].date
                 /\ feed[i].type = "income"
                 /\ feed[j].type = "income"
                 /\ feed[i].category = feed[j].category)
                    => CollationKey(NameOf(feed[i], sentinel))
                          <= CollationKey(NameOf(feed[j], sentinel))

-----------------------------------------------------------------------------
(* C11: after any sequence of entries added by the forms no two stored      *)
(* entries share an id, so that the expenses of one date follow one another *)
(* in strictly ascending id in chronological order.                         *)
C11_IdsUnique ==
    LET chron == Chronological
    IN  /\ \A i, j \in DOMAIN transactions :
              i # j => transactions[i].id # transactions[j].id
        /\ \A i, j \in DOMAIN chron :
              (/\ i < j
               /\ chron[i].date = chron[j].date
               /\ chron[i].type = "expense"
               /\ chron[j].type = "expense")
                  => chron[i].id < chron[j].id

(* C12: a step that removes a member from the roster leaves the list of     *)
(* entries as it was, memberId included, and afterwards getMemberName gives *)
(* mijijeong 미지정 for every entry that referred to the removed member.    *)
C12_DeleteKeepsEntries ==
    [][\A id \in StoredMemberIds \ {Undefined} :
          (/\ \E k \in DOMAIN members : members[k].id = id
           /\ members' = SelectSeq(members, LAMBDA m : m.id # id))
              => /\ transactions' = transactions
                 /\ \A i \in DOMAIN transactions :
                       transactions[i].memberId = id =>
                           getMemberName(members', transactions'[i].memberId)
                               = "mijijeong"]_vars

\* bak 박 (id 2) has been removed from the roster of mun 문 and bak, and an
\* entry still refers to id 2
C12_Witness ==
    /\ members = <<Member(1, "mun")>>
    /\ \E i \in DOMAIN transactions :
          /\ transactions[i].memberId = 2
          /\ getMemberName(members, transactions[i].memberId) = "mijijeong"

(* C13: an entry whose amount is not positive counts for nothing: the feed  *)
(* is the feed of the other entries, balances included, with that entry put *)
(* in, and the today split and the window totals are those of the other     *)
(* entries.                                                                 *)
C13_NonPositiveCountsNothing ==
    LET feed == transactionsWithBalance
    IN  \A i \in DOMAIN transactions :
            transactions[i].amount <= 0 =>
                LET others == Without(transactions, i)
                IN  /\ \E k \in DOMAIN feed :
                          /\ Plain(feed[k]) = transactions[i]
                          /\ Without(feed, k) = withBalance(others, members)
                    /\ balanceDataOf(others, todayStr) = balanceData
                    /\ periodicalSummaryOf(others, todayStr, tzOffset)
                          = periodicalSummary
                    /\ weeklyCategoryTotalsOf(others, todayStr, tzOffset)
                          = weeklyCategoryTotals

-----------------------------------------------------------------------------
(* The range of the search as the claims define it *)

InRange(e) ==
    /\ DaysFromCivil(search.startDate) <= DaysFromCivil(e.date)
    /\ DaysFromCivil(e.date) <= DaysFromCivil(search.endDate)

Inverted == Before(search.endDate, search.startDate)

Amounts(s) == [k \in DOMAIN s |-> s[k].amount]

(* C14: a search by person returns exactly the incomes of the queried       *)
(* member dated within the range, both ends included, in stored order; no   *)
(* expense of that member is returned; the total is the sum of the amounts  *)
(* of the returned entries.                                                 *)
C14_PersonSearch ==
    (search.searchType = "name" /\ search.nameQuery # Undefined) =>
        LET r == nameSearchResult
            Matches(e) ==
                /\ e.type = "income"
                /\ e.memberId = search.nameQuery
                /\ InRange(e)
        IN  /\ ~r.isNull
            /\ r.transactions = SelectSeq(transactions, Matches)
            /\ \A k \in DOMAIN r.transactions :
                  r.transactions[k].type # "expense"
            /\ r.total = SumOver(Amounts(r.transactions),
                                 DOMAIN r.transactions)

\* member 1 is searched from January 6 to January 7; an income and an
\* expense of member 1 are stored, both dated January 6, and the income
\* alone is returned
C14_Witness ==
    /\ view = "search"
    /\ search.searchType = "name"
    /\ search.nameQuery = 1
    /\ search.startDate = <<2024, 1, 6>>
    /\ search.endDate = <<2024, 1, 7>>
    /\ \E i, j \in DOMAIN transactions :
          /\ transactions[i].type = "income"
          /\ transactions[j].type = "expense"
          /\ transactions[i].memberId = 1
          /\ transactions[j].memberId = 1
          /\ transactions[i].date = <<2024, 1, 6>>
          /\ transactions[j].date = <<2024, 1, 6>>
    /\ Len(nameSearchResult.transactions) = 1
    /\ nameSearchResult.total = 2

(* C15: in both searches an entry dated on the first or on the last day of  *)
(* the range is matched when the rest of the query fits it; a range whose   *)
(* first day is after its last gives no match and the total 0; a search by  *)
(* category returns exactly the entries of the range whose kind and         *)
(* category are those of the query.                                         *)
C15_RangeInclusive ==
    LET byName == nameSearchResult
        byCategory == categorySearchResult
        OnBoundary(e) ==
            /\ ~Inverted
            /\ e.date = search.startDate \/ e.date = search.endDate
    IN  /\ (search.searchType = "name" /\ search.nameQuery # Undefined) =>
              /\ \A i \in DOMAIN transactions :
                    (/\ OnBoundary(transactions[i])
                     /\ transactions[i].type = "income"
                     /\ transactions[i].memberId = search.nameQuery)
                        => Count(byName.transactions, transactions[i]) > 0
              /\ Inverted =>
                    byName.transactions = <<>> /\ byName.total = 0
        /\ (search.searchType = "category" /\ search.categoryQuery # "") =>
              /\ ~byCategory.isNull
              /\ byCategory.transactions =
                    SelectSeq(transactions, LAMBDA e :
                        /\ e.type = search.categoryType
                        /\ e.category = search.categoryQuery
                        /\ InRange(e))
              /\ byCategory.total = SumOver(Amounts(byCategory.transactions),
                                            DOMAIN byCategory.transactions)
              /\ \A i \in DOMAIN transactions :
                    (/\ OnBoundary(transactions[i])
                     /\ transactions[i].type = search.categoryType
                     /\ transactions[i].category = search.categoryQuery)
                        => Count(byCategory.transactions, transactions[i]) > 0
              /\ Inverted =>
                    byCategory.transactions = <<>> /\ byCategory.total = 0

\* the range is January 6 to January 7 and the expenses of unyeongbi are
\* searched: one is dated on the first day, one on the last, both are matched
C15_Witness ==
    /\ view = "search"
    /\ search.searchType = "category"
    /\ search.categoryType = "expense"
    /\ search.categoryQuery = "unyeongbi"
    /\ search.startDate = <<2024, 1, 6>>
    /\ search.endDate = <<2024, 1, 7>>
    /\ Len(transactions) = 2
    /\ transactions[1].date = search.startDate
    /\ transactions[2].date = search.endDate
    /\ categorySearchResult.transactions = transactions
    /\ categorySearchResult.total = 6

(* C16: every step either leaves the list of expense categories as it is or *)
(* appends to it one name that is not empty and was not in it, so no name   *)
(* is removed or moved; and the list never holds a name twice.              *)
C16_CategoriesAppendOnly ==
    /\ [][\/ expenseCategories' = expenseCategories
          \/ \E category \in PromptNames \ {""} :
                /\ category \notin Range(expenseCategories)
                /\ expenseCategories' = Append(expenseCategories, category)
         ]_vars
    /\ [](\A i, j \in DOMAIN expenseCategories :
              i # j => expenseCategories[i] # expenseCategories[j])

\* two new names have been appended, in the order they were given
C16_Witness ==
    expenseCategories = DefaultExpenseCategories \o <<"gyoyukbi", "sikbi">>

(* C17: in every reachable state every stored entry has an amount above 0.  *)
C17_AmountsPositive ==
    \A i \in DOMAIN transactions : transactions[i].amount > 0

(* C18: a step runs the export or enters the roster-edit view only when it  *)
(* is a confirmation of the gate dialog (which closes) whose code is four   *)
(* digits and either is the stored code, or, no code being stored, equals   *)
(* the confirmation field and becomes the stored code; a step that closes   *)
(* the dialog without running an action changes neither view nor store.     *)
C18_GateGuards ==
    [][/\ (\/ ran'.kind \in {"save", "editMembers"}
           \/ view' = "editMembers" /\ view # "editMembers")
          => /\ showPasswordModal
             /\ ~showPasswordModal'
             /\ FourDigits(ran'.code)
             /\ \/ /\ password # ""
                   /\ ran'.code = password
                   /\ password' = password
                \/ /\ password = ""
                   /\ ran'.code = ran'.confirmPassword
                   /\ password' = ran'.code
       /\ (showPasswordModal /\ ~showPasswordModal' /\ ran'.kind = "none")
          => /\ view' = view
             /\ reader' = reader
             /\ UNCHANGED store
      ]_vars

\* the export has just run on the stored code 1234, entered in a dialog
\* without a confirmation field
C18_Witness ==
    /\ ran.kind = "save"
    /\ ran.code = "1234"
    /\ ran.confirmPassword = ""
    /\ password = "1234"
    /\ ~showPasswordModal

(* C19: every step that is not the replacement of the store by a loaded     *)
(* file leaves the stored entries as they are, in all fields and in place,  *)
(* or appends one entry after them.                                         *)
C19_EntriesImmutable ==
    [][\/ reader # <<>> /\ reader' = <<>>
       \/ transactions' = transactions
       \/ /\ Len(transactions') = Len(transactions) + 1
          /\ SubSeq(transactions', 1, Len(transactions)) = transactions
      ]_vars

\* the giver of the first stored entry has been removed from the roster and
\* an expense has been appended: the two entries stored first are as before
C19_Witness ==
    /\ Len(transactions) = 3
    /\ SubSeq(transactions, 1, 2) = FrameEntries
    /\ transactions[3].type = "expense"
    /\ members = <<>>

(* C20: the step in which a chosen file has been read replaces the roster,  *)
(* the entries and the expense categories by those of the file, when the    *)
(* file parses and holds all three, and changes none of them otherwise; the *)
(* gate step that starts the import, or in which the overwrite is declined, *)
(* changes none of the three; and the import never changes a stored access  *)
(* code.                                                                    *)
C20_ImportAllOrNothing ==
    [][/\ (reader # <<>> /\ reader' = <<>>) =>
             LET file == reader[1]
                 replaced ==
                     /\ members' = file.members
                     /\ transactions' = file.transactions
                     /\ expenseCategories' = file.expenseCategories
                 kept ==
                     UNCHANGED <<members, transactions, expenseCategories>>
             IN  /\ password' = password
                 /\ IF /\ file.parses
                       /\ {"members", "transactions", "expenseCategories"}
                              \subseteq file.has
                    THEN replaced
                    ELSE kept
                 /\ replaced \/ kept
       /\ ran'.kind = "load" =>
             /\ UNCHANGED <<members, transactions, expenseCategories>>
             /\ password # "" => password' = password
      ]_vars

\* the whole file has replaced the three collections of a fresh installation
\* and the access code created at the gate is still the stored one
C20_Witness ==
    /\ members = <<Member(1, "bak")>>
    /\ Len(transactions) = 2
    /\ expenseCategories = <<"gujebi">>
    /\ reader = <<>>
    /\ password = "1234"

(* C21: with a non-empty ledger, the balance on the first entry of the feed *)
(* minus todaysBalance of the today split is the signed sum of the entries  *)
(* dated after today; with no such entry the two are equal.                 *)
C21_FeedHeadVersusToday ==
    LET feed == transactionsWithBalance
        future == {i \in DOMAIN transactions :
                      Before(todayStr, transactions[i].date)}
    IN  transactions # <<>> =>
            /\ feed[1].balance - balanceData.todaysBalance
                  = SumOver(SignedOf(transactions), future)
            /\ future = {} => feed[1].balance = balanceData.todaysBalance

\* an income of 2 before today, an expense of 2 today and an income of 2
\* after today: the feed starts at 2 where todaysBalance is 0
C21_Witness ==
    LET feed == transactionsWithBalance
    IN  /\ Len(transactions) = 3
        /\ \E i, j, k \in DOMAIN transactions :
              /\ Before(transactions[i].date, todayStr)
              /\ transactions[j].date = todayStr
              /\ Before(todayStr, transactions[k].date)
              /\ Signed(transactions[i]) = 2
              /\ Signed(transactions[j]) = -2
              /\ Signed(transactions[k]) = 2
        /\ Before(todayStr, feed[1].date)
        /\ feed[1].balance = 2
        /\ balanceData.todaysBalance = 0

(* C22: with a code stored, the submission of four digits that are not the *)
(* stored code runs no action, leaves the gate dialog open and as it was,   *)
(* and changes neither roster, entries, expense categories, stored code,    *)
(* view nor the file being read; and no step at all changes or clears a     *)
(* stored code.                                                             *)
C22_WrongCodeRefused ==
    [][/\ (/\ password # ""
           /\ ran'.kind # "none"
           /\ FourDigits(ran'.code)
           /\ ran'.code # password)
          => /\ ran'.kind = "refused"
             /\ showPasswordModal
             /\ showPasswordModal'
             /\ passwordModalProps' = passwordModalProps
             /\ view' = view
             /\ reader' = reader
             /\ UNCHANGED store
       /\ password # "" => password' = password
      ]_vars

\* 4321 has just been refused by the dialog that guards the stored 1234 and
\* the dialog is still open on the same action
C22_Witness ==
    /\ password = "1234"
    /\ ran = Ran("refused", "4321", "")
    /\ showPasswordModal
    /\ passwordModalProps.mode = "enter"
    /\ passwordModalProps.password = "1234"
    /\ passwordModalProps.action.kind \in {"save", "editMembers", "load"}

====
